---- MODULE Spec2Model ----
(***************************************************************************)
(* Pagination / session-state engine of the perfume chatbot               *)
(* (app/chatbot/utils.py, app/chatbot/routes.py).                         *)
(*                                                                         *)
(* The two persisted JSON documents (intermediate.json and                *)
(* pagination_state.json) are the state; every engine function and the    *)
(* chat handler is one action in the sequential specifications and one    *)
(* step per file access where several server processes run.  Python list  *)
(* slicing, the legacy-shape sniffing of the read/write helpers and the   *)
(* partition-blind calls of the chat handler are modelled as the code     *)
(* computes them.                                                         *)
(***************************************************************************)
EXTENDS Integers, Sequences, FiniteSets, TLC

VARIABLES
    interDoc,             \* content of intermediate.json
    pagDoc,               \* content of pagination_state.json
    conversation_states,  \* utils.conversation_states: conversation id -> transcript
    keys,                 \* partition keys (device ids) callers use in this run
    track,                \* what the bookkeeping below follows in this run
    receiving,            \* server processes that requests reach in this run
    sess,                 \* bookkeeping: what happened since the latest store
    workers               \* server processes: the call each one is in and its locals

vars == <<interDoc, pagDoc, conversation_states, keys, track, receiving, sess, workers>>

----------------------------------------------------------------------------
(* Bounds of the model *)

\* longest item list handed to store_search_results
MaxLen == 2
\* largest count handed to get_next_results
MaxCount == 2
\* counts range down to -MaxNeg
MaxNeg == 1
\* messages kept per transcript before the model stops issuing chat requests
MaxMsgs == 5
\* engine calls each worker makes in one concurrent run
MaxCalls == 1
\* chat requests each process answers in one concurrent run
MaxRequests == 1

\* page sizes range past the longest list
MaxPage == MaxLen + 1
\* a Cursor offset is followed down to -MaxDepth (negative counts push it down)
MaxDepth == MaxLen

\* page size the chat handler passes (routes.py: store_search_results(results, page_size=5))
ChatPageSize == 5
\* default count of the paginate tool (routes.py: args.get("count", 5))
DefaultCount == 5

Min(a, b) == IF a < b THEN a ELSE b
Max(a, b) == IF a > b THEN a ELSE b

\* catalog rows by position: a search returns rows in catalog order
Catalog == 1 .. MaxLen

RECURSIVE Ordered(_)
\* the rows of S as a list in catalog order
Ordered(S) ==
    IF S = {} THEN <<>>
    ELSE LET m == CHOOSE x \in S : \A y \in S : y <= x
         IN  Append(Ordered(S \ {m}), m)

ItemLists == {Ordered(S) : S \in SUBSET Catalog}
PageSizes == 0 .. MaxPage
Counts == (0 - MaxNeg) .. MaxCount

\* ordinary partition keys, and the keys that coincide with Cursor field names
OrdinaryKeys == {"default", "devA"}
FieldKeys == {"offset", "total_results"}

----------------------------------------------------------------------------
(* Python list slicing: s[a:b] *)

\* a slice bound clamped into 0..n, negative bounds counted from the end
SliceIndex(i, n) ==
    IF i < 0 THEN Max(i + n, 0) ELSE Min(i, n)

PySlice(s, a, b) ==
    LET n  == Len(s)
        lo == SliceIndex(a, n)
        hi == SliceIndex(b, n)
    IN  IF lo < hi THEN SubSeq(s, lo + 1, hi) ELSE <<>>

----------------------------------------------------------------------------
(* JSON documents *)

\* a JSON value found under "offset" / "total_results": an integer, or an object
IntLeaf(n) == [int |-> TRUE, n |-> n]
ObjLeaf == [int |-> FALSE, n |-> 0]

\* a value of the top level of pagination_state.json: a bare integer (flat
\* legacy document) or an object with the two Cursor fields
TopInt(n) == [entry |-> FALSE, n |-> n, offset |-> IntLeaf(0), total_results |-> IntLeaf(0)]
TopEntry(o, t) == [entry |-> TRUE, n |-> 0, offset |-> o, total_results |-> t]

AsLeaf(v) == IF v.entry THEN ObjLeaf ELSE IntLeaf(v.n)

NoMap == [k \in {} |-> 0]

\* a file by its content: absent, a JSON array, a JSON object, or text that
\* does not parse.  bytes is the length of a text that does not parse; the
\* length of one that parses follows from the content (FileSize)
MissingDoc == [shape |-> "missing", list |-> <<>>, map |-> NoMap, bytes |-> 0]
\* a file that exists and does not parse: just opened with mode "w" (empty),
\* or holding the end of a longer text behind a shorter one
UnparseableDoc(bytes) == [shape |-> "corrupt", list |-> <<>>, map |-> NoMap, bytes |-> bytes]
ListDoc(data_list) == [shape |-> "list", list |-> data_list, map |-> NoMap, bytes |-> 0]
MapDoc(m) == [shape |-> "map", list |-> <<>>, map |-> m, bytes |-> 0]

\* m with key k set to v (dict item assignment)
SetKey(m, k, v) == [x \in (DOMAIN m) \cup {k} |-> IF x = k THEN v ELSE m[x]]

DefaultState == [offset |-> IntLeaf(0), total_results |-> IntLeaf(0)]

----------------------------------------------------------------------------
(* Result Store *)

_read_intermediate(doc, device_id) ==
    CASE doc.shape = "missing" -> <<>>
      [] doc.shape = "corrupt" -> <<>>
      [] doc.shape = "list"    -> IF device_id = "default" THEN doc.list ELSE <<>>
      [] doc.shape = "map"     -> IF device_id \in DOMAIN doc.map
                                  THEN doc.map[device_id] ELSE <<>>

\* variant: the new list appended to the partition's old one
_write_intermediate_Append(doc, data_list, device_id) ==
    LET existing_data ==
            CASE doc.shape = "map"  -> doc.map
              [] doc.shape = "list" -> SetKey(NoMap, "default", doc.list)
              [] OTHER              -> NoMap
        old == IF device_id \in DOMAIN existing_data THEN existing_data[device_id] ELSE <<>>
    IN  MapDoc(SetKey(existing_data, device_id, old \o data_list))

\* variant: a legacy list is dropped instead of being kept as "default"
_write_intermediate_DropLegacy(doc, data_list, device_id) ==
    LET existing_data ==
            CASE doc.shape = "map"  -> doc.map
              [] OTHER              -> NoMap
    IN  MapDoc(SetKey(existing_data, device_id, data_list))

_write_intermediate(doc, data_list, device_id) ==
    LET existing_data ==
            CASE doc.shape = "map"  -> doc.map
              [] doc.shape = "list" -> SetKey(NoMap, "default", doc.list)
              [] OTHER              -> NoMap
    IN  MapDoc(SetKey(existing_data, device_id, data_list))

----------------------------------------------------------------------------
(* Cursor Store *)

\* "offset" in data and "total_results" in data
LooksLegacy(m) == "offset" \in DOMAIN m /\ "total_results" \in DOMAIN m

\* the whole document read as one Cursor object
DocAsState(m) ==
    [offset |-> AsLeaf(m["offset"]), total_results |-> AsLeaf(m["total_results"])]

_read_pagination_state(doc, device_id) ==
    CASE doc.shape = "missing" -> DefaultState
      [] doc.shape = "corrupt" -> DefaultState
      [] doc.shape = "map"     ->
            IF LooksLegacy(doc.map)
            THEN IF device_id = "default" THEN DocAsState(doc.map) ELSE DefaultState
            ELSE IF device_id \in DOMAIN doc.map
                 THEN [offset |-> doc.map[device_id].offset,
                       total_results |-> doc.map[device_id].total_results]
                 ELSE DefaultState

_write_pagination_state(doc, offset, total_results, device_id) ==
    LET existing_data ==
            CASE doc.shape = "map" ->
                    IF LooksLegacy(doc.map)
                    THEN SetKey(NoMap, "default",
                                TopEntry(AsLeaf(doc.map["offset"]),
                                         AsLeaf(doc.map["total_results"])))
                    ELSE doc.map
              [] OTHER -> NoMap
        state == TopEntry(IntLeaf(offset), IntLeaf(total_results))
    IN  MapDoc(SetKey(existing_data, device_id, state))

----------------------------------------------------------------------------
(* Pagination Engine: each function as the documents it leaves and its result *)

\* result of a call: the two documents afterwards, the returned list `ret`,
\* the returned number `num`, and `err` when the call raised
Outcome(inter, pag, ret, num, err) ==
    [inter |-> inter, pag |-> pag, ret |-> ret, num |-> num, err |-> err]

\* variant: end_index one short
get_next_results_OffByOne(inter, pag, count, device_id) ==
    LET pagination_state == _read_pagination_state(pag, device_id)
        offset      == pagination_state.offset
        all_results == _read_intermediate(inter, device_id)
        end_index   == Min(offset.n + count, Len(all_results)) - 1
        batch       == PySlice(all_results, offset.n, end_index)
    IN  IF all_results = <<>> THEN Outcome(inter, pag, <<>>, 0, "none")
        ELSE IF ~offset.int THEN Outcome(inter, pag, <<>>, 0, "TypeError")
        ELSE IF offset.n >= Len(all_results) THEN Outcome(inter, pag, <<>>, 0, "none")
        ELSE Outcome(inter,
                     _write_pagination_state(pag, end_index, Len(all_results), device_id),
                     batch, 0, "none")

\* variant: the Cursor written with the total_results read, not len(all_results)
get_next_results_StaleTotal(inter, pag, count, device_id) ==
    LET pagination_state == _read_pagination_state(pag, device_id)
        offset      == pagination_state.offset
        all_results == _read_intermediate(inter, device_id)
        end_index   == Min(offset.n + count, Len(all_results))
        batch       == PySlice(all_results, offset.n, end_index)
    IN  IF all_results = <<>> THEN Outcome(inter, pag, <<>>, 0, "none")
        ELSE IF ~offset.int THEN Outcome(inter, pag, <<>>, 0, "TypeError")
        ELSE IF offset.n >= Len(all_results) THEN Outcome(inter, pag, <<>>, 0, "none")
        ELSE Outcome(inter,
                     _write_pagination_state(pag, end_index,
                                             pagination_state.total_results.n, device_id),
                     batch, 0, "none")

\* variant: the Cursor's total_results tested as well (offset >= total_results)
get_next_results_TotalCheck(inter, pag, count, device_id) ==
    LET pagination_state == _read_pagination_state(pag, device_id)
        offset      == pagination_state.offset
        all_results == _read_intermediate(inter, device_id)
        end_index   == Min(offset.n + count, Len(all_results))
        batch       == PySlice(all_results, offset.n, end_index)
    IN  IF all_results = <<>> THEN Outcome(inter, pag, <<>>, 0, "none")
        ELSE IF ~offset.int THEN Outcome(inter, pag, <<>>, 0, "TypeError")
        ELSE IF offset.n >= Len(all_results) \/ offset.n >= pagination_state.total_results.n
        THEN Outcome(inter, pag, <<>>, 0, "none")
        ELSE Outcome(inter,
                     _write_pagination_state(pag, end_index, Len(all_results), device_id),
                     batch, 0, "none")

\* variant: the new offset computed from count alone (offset not added)
get_next_results_NoAdd(inter, pag, count, device_id) ==
    LET pagination_state == _read_pagination_state(pag, device_id)
        offset      == pagination_state.offset
        all_results == _read_intermediate(inter, device_id)
        end_index   == Min(count, Len(all_results))
        batch       == PySlice(all_results, offset.n, end_index)
    IN  IF all_results = <<>> THEN Outcome(inter, pag, <<>>, 0, "none")
        ELSE IF ~offset.int THEN Outcome(inter, pag, <<>>, 0, "TypeError")
        ELSE IF offset.n >= Len(all_results) THEN Outcome(inter, pag, <<>>, 0, "none")
        ELSE Outcome(inter,
                     _write_pagination_state(pag, end_index, Len(all_results), device_id),
                     batch, 0, "none")

\* variant: the test "offset >= len(all_results)" left out
get_next_results_NoEndCheck(inter, pag, count, device_id) ==
    LET pagination_state == _read_pagination_state(pag, device_id)
        offset      == pagination_state.offset
        all_results == _read_intermediate(inter, device_id)
        end_index   == Min(offset.n + count, Len(all_results))
        batch       == PySlice(all_results, offset.n, end_index)
    IN  IF all_results = <<>> THEN Outcome(inter, pag, <<>>, 0, "none")
        ELSE IF ~offset.int THEN Outcome(inter, pag, <<>>, 0, "TypeError")
        ELSE Outcome(inter,
                     _write_pagination_state(pag, end_index, Len(all_results), device_id),
                     batch, 0, "none")

get_next_results(inter, pag, count, device_id) ==
    LET pagination_state == _read_pagination_state(pag, device_id)
        offset      == pagination_state.offset
        all_results == _read_intermediate(inter, device_id)
        end_index   == Min(offset.n + count, Len(all_results))
        batch       == PySlice(all_results, offset.n, end_index)
    IN  IF all_results = <<>> THEN Outcome(inter, pag, <<>>, 0, "none")
        ELSE IF ~offset.int THEN Outcome(inter, pag, <<>>, 0, "TypeError")
        ELSE IF offset.n >= Len(all_results) THEN Outcome(inter, pag, <<>>, 0, "none")
        ELSE Outcome(inter,
                     _write_pagination_state(pag, end_index, Len(all_results), device_id),
                     batch, 0, "none")

reset_pagination(pag, device_id) ==
    _write_pagination_state(pag, 0, 0, device_id)

\* variant: the difference returned without the empty-list test and max(0, .)
get_remaining_count_Raw(inter, pag, device_id) ==
    LET pagination_state == _read_pagination_state(pag, device_id)
        all_results == _read_intermediate(inter, device_id)
    IN  IF ~pagination_state.offset.int THEN Outcome(inter, pag, <<>>, 0, "TypeError")
        ELSE Outcome(inter, pag, <<>>,
                     Len(all_results) - pagination_state.offset.n, "none")

\* variant: the difference returned without max(0, .)
get_remaining_count_NoClamp(inter, pag, device_id) ==
    LET pagination_state == _read_pagination_state(pag, device_id)
        all_results == _read_intermediate(inter, device_id)
    IN  IF all_results = <<>> THEN Outcome(inter, pag, <<>>, 0, "none")
        ELSE IF ~pagination_state.offset.int THEN Outcome(inter, pag, <<>>, 0, "TypeError")
        ELSE Outcome(inter, pag, <<>>,
                     Len(all_results) - pagination_state.offset.n, "none")

get_remaining_count(inter, pag, device_id) ==
    LET pagination_state == _read_pagination_state(pag, device_id)
        all_results == _read_intermediate(inter, device_id)
    IN  IF all_results = <<>> THEN Outcome(inter, pag, <<>>, 0, "none")
        ELSE IF ~pagination_state.offset.int THEN Outcome(inter, pag, <<>>, 0, "TypeError")
        ELSE Outcome(inter, pag, <<>>,
                     Max(0, Len(all_results) - pagination_state.offset.n), "none")

\* variant: the Cursor left at the start instead of after the first page
store_search_results_NoAdvance(inter, pag, results, page_size, device_id) ==
    LET inter1      == _write_intermediate(inter, results, device_id)
        pag1        == reset_pagination(pag, device_id)
        first_batch == PySlice(results, 0, page_size)
        pag2        == _write_pagination_state(pag1, 0, Len(results), device_id)
    IN  Outcome(inter1, pag2, first_batch, 0, "none")

store_search_results(inter, pag, results, page_size, device_id) ==
    LET inter1      == _write_intermediate(inter, results, device_id)
        pag1        == reset_pagination(pag, device_id)
        first_batch == PySlice(results, 0, page_size)
        pag2        == _write_pagination_state(pag1, page_size, Len(results), device_id)
    IN  Outcome(inter1, pag2, first_batch, 0, "none")

----------------------------------------------------------------------------
(* What a caller observes of one partition *)

ResultSet(device_id) == _read_intermediate(interDoc, device_id)
Cursor(device_id) == _read_pagination_state(pagDoc, device_id)
Remaining(device_id) == get_remaining_count(interDoc, pagDoc, device_id)

----------------------------------------------------------------------------
(* Bookkeeping (not program state) *)

\* sess follows the partition of the latest store: the list and page_size
\* stored and, when track = "drain", the pages served since (first page
\* included), the count used, and whether an empty page came back (done).
\* With track = "drain" it is dropped as soon as anything but a further
\* get_next_results with that one positive count touches the partition; with
\* track = "replace" it starts at a store over a non-empty ResultSet and
\* stays until the next store, and back tells whether reset_pagination or a
\* get_next_results with a negative count was called on the partition since.
NoSess == [stored |-> FALSE, dev |-> "default", items |-> <<>>, ps |-> 0,
           served |-> <<>>, c |-> 0, done |-> FALSE, back |-> FALSE]

SessAfterStore(d, items, ps, first) ==
    CASE track = "drain" ->
            [stored |-> TRUE, dev |-> d, items |-> items, ps |-> ps,
             served |-> first, c |-> 0, done |-> FALSE, back |-> FALSE]
      [] track = "replace" ->
            IF ResultSet(d) # <<>>
            THEN [stored |-> TRUE, dev |-> d, items |-> items, ps |-> ps,
                  served |-> <<>>, c |-> 0, done |-> FALSE, back |-> FALSE]
            ELSE NoSess
      [] OTHER -> NoSess

SessAfterNext(s, d, count, out) ==
    IF ~s.stored \/ s.dev # d THEN s
    ELSE IF track = "replace" THEN [s EXCEPT !.back = s.back \/ count < 0]
    ELSE IF track # "drain" THEN s
    ELSE IF count > 0 /\ s.c \in {0, count} /\ out.err = "none"
    THEN [s EXCEPT !.served = s.served \o out.ret,
                   !.c = count,
                   !.done = s.done \/ out.ret = <<>>]
    ELSE NoSess

SessAfterReset(s, d) ==
    IF ~s.stored \/ s.dev # d THEN s
    ELSE IF track = "replace" THEN [s EXCEPT !.back = TRUE]
    ELSE IF track = "drain" THEN NoSess
    ELSE s

----------------------------------------------------------------------------
(* Catalog search (search_perfumes) over a sample of catalog rows *)

\* rows of the sample table
ChatCatalogSize == ChatPageSize + 2
ChatRows == 1 .. ChatCatalogSize

\* str.lower() on the strings that occur
Lower(str) ==
    CASE str = "Rose" -> "rose"
      [] str = "Men"  -> "men"
      [] OTHER        -> str

\* columns of row r: top_notes and gender (JSON lists)
RowTopNotes(r) == IF r % 2 = 1 THEN <<"Rose", "musk">> ELSE <<"musk">>
RowGender(r) ==
    CASE r % 3 = 1 -> <<"Men">>
      [] r % 3 = 2 -> <<"women">>
      [] OTHER     -> <<"men", "women">>

Range(q) == {q[i] : i \in DOMAIN q}
LowerAll(q) == [i \in DOMAIN q |-> Lower(q[i])]

has_all(source_list, targets) ==
    \A t \in Range(targets) : Lower(t) \in Range(LowerAll(source_list))

\* filters the tool call may carry; "" stands for an absent filter
Filters == [top_notes : {"", "rose"}, gender : {"", "men", "women"}]

RowMatches(r, filters) ==
    /\ filters.top_notes # "" => has_all(RowTopNotes(r), <<filters.top_notes>>)
    /\ filters.gender # "" =>
          LET required_gender == Lower(filters.gender)
              db_gender == LowerAll(RowGender(r))
          IN  /\ required_gender = "men" => db_gender = <<"men">>
              /\ required_gender = "women" => db_gender = <<"women">>

search_perfumes(filters) ==
    Ordered({r \in ChatRows : RowMatches(r, filters)})

----------------------------------------------------------------------------
(* Length in bytes of the text json.dump(..., indent=2) writes *)

RECURSIVE DecLen(_)
\* len(str(n))
DecLen(n) ==
    IF n < 0 THEN 1 + DecLen(0 - n)
    ELSE IF n < 10 THEN 1 ELSE 1 + DecLen(n \div 10)

\* len(s) of the strings that occur in the documents
StrLen(s) ==
    CASE s = "Rose" -> 4
      [] s = "musk" -> 4
      [] s = "Men" -> 3
      [] s = "men" -> 3
      [] s = "women" -> 5
      [] s = "default" -> 7
      [] s = "devA" -> 4
      [] s = "offset" -> 6
      [] s = "total_results" -> 13

\* an array or object of n members whose texts add up to total: empty it is
\* two brackets; otherwise every member is on a line of its own indented by
\* inner, members are separated by commas, and the closing bracket is on a
\* line of its own indented by outer
Block(n, total, inner, outer) ==
    IF n = 0 THEN 2
    ELSE 1 + total + n * (1 + inner) + (n - 1) + 1 + outer + 1

RECURSIVE StrListTotal(_)
StrListTotal(q) ==
    IF q = <<>> THEN 0 ELSE 2 + StrLen(Head(q)) + StrListTotal(Tail(q))

\* a list of strings whose closing bracket is indented by outer
StrListSize(q, outer) == Block(Len(q), StrListTotal(q), outer + 2, outer)

\* item i of a stored list is catalog row i as search_perfumes builds it
\* (Name, Top Notes, Middle Notes, Base Notes, Main Accords, Gender; the
\* columns the model does not keep are empty lists), written as a member of
\* a list; the item's closing bracket is indented by outer
ItemSize(i, outer) ==
    Block(6,
          (8 + 3 + DecLen(i))
          + (13 + StrListSize(RowTopNotes(i), outer + 2))
          + (16 + 2) + (14 + 2) + (16 + 2)
          + (10 + StrListSize(RowGender(i), outer + 2)),
          outer + 2, outer)

RECURSIVE ItemsTotal(_, _)
ItemsTotal(list, outer) ==
    IF list = <<>> THEN 0
    ELSE ItemSize(Head(list), outer) + ItemsTotal(Tail(list), outer)

\* a list of items whose closing bracket is indented by outer: the whole of
\* a legacy intermediate.json (outer = 0) or the list of one partition
ListSize(list, outer) == Block(Len(list), ItemsTotal(list, outer + 2), outer + 2, outer)

\* a Cursor field that holds an integer.  (Where several processes run, the
\* device ids are ordinary ones and every Cursor field is an integer.)
LeafSize(l) == CASE l.int -> DecLen(l.n)

\* the value of one top-level key of pagination_state.json
StateSize(v) ==
    IF v.entry
    THEN Block(2, (10 + LeafSize(v.offset)) + (17 + LeafSize(v.total_results)), 4, 2)
    ELSE DecLen(v.n)

RECURSIVE EntriesTotal(_, _, _)
\* "key": value for the keys ks of map m of the named file
EntriesTotal(file, m, ks) ==
    IF ks = {} THEN 0
    ELSE LET k == CHOOSE x \in ks : TRUE
         IN  (StrLen(k) + 4
              + IF file = "intermediate" THEN ListSize(m[k], 2) ELSE StateSize(m[k]))
             + EntriesTotal(file, m, ks \ {k})

\* bytes in the file
FileSize(file, doc) ==
    CASE doc.shape = "map" ->
            Block(Cardinality(DOMAIN doc.map),
                  EntriesTotal(file, doc.map, DOMAIN doc.map), 2, 0)
      [] doc.shape = "list"    -> ListSize(doc.list, 0)
      [] doc.shape = "corrupt" -> doc.bytes
      [] doc.shape = "missing" -> 0

\* json.dump(existing_data, f) and the close, on a file opened with mode "w"
\* before: the text lands at the start of the file, and when the file has
\* come to hold more bytes than that since the open, the rest of them stays
\* behind the text and the file does not parse
json_dump(file, current, existing_data) ==
    IF FileSize(file, current) > FileSize(file, existing_data)
    THEN UnparseableDoc(FileSize(file, current))
    ELSE existing_data

----------------------------------------------------------------------------
(* Server processes (uvicorn workers): each runs one call at a time *)

\* uvicorn.run(..., workers=4)
Workers == {"w1", "w2", "w3", "w4"}

\* the processes that requests reach in one run: two of the four, or three
\* of them where the callers only page (bounds of the model)
TwoWorkers == {"w1", "w2"}
ThreeWorkers == {"w1", "w2", "w3"}

\* the device a worker serves when the run keeps the workers on distinct
\* partitions (track = "disjoint")
HomeDevice(w) ==
    CASE w = "w1" -> "default"
      [] w = "w2" -> "devA"
      [] w = "w3" -> "devB"
      [] w = "w4" -> "devC"

\* no chat request in the process; the fields are the locals of chat_endpoint
\* that outlive its engine calls (conversation_id, the tool's name, the page
\* it returned), where the request fails if it does, and the answer sent
NoRequest ==
    [stage |-> "none", conversation_id |-> "", tool |-> "", fault |-> "none",
     batch |-> <<>>,
     response |-> [status |-> 0, conversation_id |-> "", has |-> FALSE,
                   matched_perfumes |-> <<>>, returned_count |-> 0,
                   remaining_count |-> 0]]

\* a worker between calls; the fields are the locals of the call it runs:
\* the arguments (op, dev, count or page_size in arg, items), what it has
\* read (pagination_state, all_results, existing_data), what it returns
\* (ret, num, err), and the partition as it was when the call began (before);
\* conversation_states is the process's own copy of utils.conversation_states,
\* request the chat request the process is handling, requests the number of
\* chat requests it has answered
IdleWorker(w) ==
    [pc |-> "idle", op |-> "none", dev |-> HomeDevice(w), arg |-> 0, items |-> <<>>,
     pagination_state |-> DefaultState, all_results |-> <<>>,
     existing_data |-> MissingDoc, ret |-> <<>>, num |-> 0, err |-> "none",
     before |-> [rs |-> <<>>, cur |-> DefaultState], calls |-> 0,
     conversation_states |-> NoMap, request |-> NoRequest, requests |-> 0]

----------------------------------------------------------------------------
(* Actions: one per engine function *)

StoreSearchResults(d, items, ps) ==
    \E out \in {store_search_results(interDoc, pagDoc, items, ps, d)} :
        /\ interDoc' = out.inter
        /\ pagDoc' = out.pag
        /\ sess' = SessAfterStore(d, items, ps, out.ret)
        /\ UNCHANGED <<conversation_states, keys, track, receiving, workers>>

\* the guard keeps the offset above -MaxDepth (a bound of the model only)
GetNextResults(d, count) ==
    \E out \in {get_next_results(interDoc, pagDoc, count, d)} :
        LET cur == _read_pagination_state(out.pag, d)
        IN  /\ cur.offset.int => cur.offset.n >= 0 - MaxDepth
            /\ interDoc' = out.inter
            /\ pagDoc' = out.pag
            /\ sess' = SessAfterNext(sess, d, count, out)
            /\ UNCHANGED <<conversation_states, keys, track, receiving, workers>>

ResetPagination(d) ==
    /\ pagDoc' = reset_pagination(pagDoc, d)
    /\ sess' = SessAfterReset(sess, d)
    /\ UNCHANGED <<interDoc, conversation_states, keys, track, receiving, workers>>

\* a read: both documents stay as they are
GetRemainingCount(d) ==
    LET out == get_remaining_count(interDoc, pagDoc, d)
    IN  /\ interDoc' = out.inter
        /\ pagDoc' = out.pag
        /\ UNCHANGED <<conversation_states, keys, track, receiving, sess, workers>>

Next ==
    \/ \E d \in keys, items \in ItemLists, ps \in PageSizes : StoreSearchResults(d, items, ps)
    \/ \E d \in keys, count \in Counts : GetNextResults(d, count)
    \/ \E d \in keys : ResetPagination(d)
    \/ \E d \in keys : GetRemainingCount(d)

InitWith(ks, tr) ==
    /\ interDoc = MissingDoc
    /\ pagDoc = MissingDoc
    /\ conversation_states = NoMap
    /\ keys = ks
    /\ track = tr
    /\ receiving = TwoWorkers
    /\ sess = NoSess
    /\ workers = [w \in Workers |-> IdleWorker(w)]

\* both files absent, callers use ordinary device ids
Init == InitWith(OrdinaryKeys, "drain")

Spec == Init /\ [][Next]_vars

\* one store, after which its caller keeps calling get_next_results with one
\* positive count until an empty page comes back
FirstStore(d, items, ps) ==
    /\ ~sess.stored
    /\ StoreSearchResults(d, items, ps)

Drain(d, count) ==
    /\ sess.stored /\ sess.dev = d /\ ~sess.done
    /\ sess.c \in {0, count}
    /\ GetNextResults(d, count)

NextDrain ==
    \/ \E d \in keys, items \in ItemLists, ps \in PageSizes : FirstStore(d, items, ps)
    \/ \E d \in keys, count \in 1 .. MaxCount : Drain(d, count)

\* the caller does go on paging while a page may still come
SpecDrain ==
    /\ Init
    /\ [][NextDrain]_vars
    /\ WF_vars(\E d \in keys, count \in 1 .. MaxCount : Drain(d, count))

\* the same machine, following the latest replacing store
InitReplace == InitWith(OrdinaryKeys, "replace")

SpecReplace == InitReplace /\ [][Next]_vars

\* the same machine with device ids that coincide with Cursor field names
InitKeys == InitWith(FieldKeys \cup {"default"}, "none")

SpecKeys == InitKeys /\ [][Next]_vars

----------------------------------------------------------------------------
(* The single-partition program (chatbot.py), which the engine's files may *)
(* come from                                                               *)

\* chatbot.py _write_intermediate: the file is the bare list
chatbot_write_intermediate(data_list) == ListDoc(data_list)

\* chatbot.py _write_pagination_state: the file is one flat Cursor object
chatbot_write_pagination_state(offset, total_results) ==
    MapDoc(SetKey(SetKey(NoMap, "offset", TopInt(offset)),
                  "total_results", TopInt(total_results)))

\* chatbot.py _read_intermediate: the parsed JSON whatever it is, [] when the
\* file is absent or does not parse
chatbot_read_intermediate(doc) ==
    IF doc.shape \in {"list", "map"} THEN doc ELSE ListDoc(<<>>)

\* chatbot.py _read_pagination_state: the parsed JSON object, or
\* {"offset": 0, "total_results": 0} when the file is absent or does not parse
chatbot_read_pagination_state(doc) ==
    IF doc.shape = "map" THEN doc.map ELSE chatbot_write_pagination_state(0, 0).map

\* chatbot.py store_search_results(results, page_size): three writes, of
\* which the Cursor (0, len) is overwritten by (page_size, len) at once
chatbot_store_search_results(results, page_size) ==
    Outcome(chatbot_write_intermediate(results),
            chatbot_write_pagination_state(page_size, Len(results)),
            PySlice(results, 0, page_size), 0, "none")

\* chatbot.py get_next_results(count).  On files the partitioned engine has
\* rewritten, pagination_state["offset"] raises KeyError; a dict in place of
\* the list has a length and raises when sliced (TypeError; KeyError from
\* Python 3.12 on)
chatbot_get_next_results(inter, pag, count) ==
    LET pagination_state == chatbot_read_pagination_state(pag)
        all_results == chatbot_read_intermediate(inter)
        length == IF all_results.shape = "list" THEN Len(all_results.list)
                  ELSE Cardinality(DOMAIN all_results.map)
    IN  IF "offset" \notin DOMAIN pagination_state
        THEN Outcome(inter, pag, <<>>, 0, "KeyError")
        ELSE LET offset    == pagination_state["offset"]
                 end_index == Min(offset.n + count, length)
             IN  IF length = 0
                 THEN Outcome(inter, pag, <<>>, 0, "none")
                 ELSE IF offset.entry
                 THEN Outcome(inter, pag, <<>>, 0, "TypeError")
                 ELSE IF offset.n >= length
                 THEN Outcome(inter, pag, <<>>, 0, "none")
                 ELSE IF all_results.shape = "map"
                 THEN Outcome(inter, pag, <<>>, 0, "TypeError")
                 ELSE Outcome(inter,
                              chatbot_write_pagination_state(end_index, length),
                              PySlice(all_results.list, offset.n, end_index),
                              0, "none")

\* the Result Store holds a bare list: isinstance(data, list)
LegacyList(doc) == doc.shape = "list"

\* the Cursor Store holds a flat Cursor: the engine's test
\* "offset" in data and "total_results" in data
FlatCursor(doc) == doc.shape = "map" /\ LooksLegacy(doc.map)

\* the single-partition program stores a search with any page size
\* (run_chatbot passes 5), whatever the files hold ...
ChatbotStoreSearchResults(results, page_size) ==
    /\ \E out \in {chatbot_store_search_results(results, page_size)} :
          /\ interDoc' = out.inter
          /\ pagDoc' = out.pag
    /\ UNCHANGED <<conversation_states, keys, track, receiving, sess, workers>>

\* ... and fetches a page with any count (run_chatbot passes int(count), 5
\* when absent); the guard keeps the offset above -MaxDepth (a bound of the
\* model only)
ChatbotGetNextResults(count) ==
    /\ \E out \in {chatbot_get_next_results(interDoc, pagDoc, count)} :
          /\ FlatCursor(out.pag) => AsLeaf(out.pag.map["offset"]).n >= 0 - MaxDepth
          /\ interDoc' = out.inter
          /\ pagDoc' = out.pag
    /\ UNCHANGED <<conversation_states, keys, track, receiving, sess, workers>>

\* the single-partition program and the partitioned engine run on the same
\* two files, in any order
NextLegacy ==
    \/ \E results \in ItemLists, page_size \in PageSizes \cup {ChatPageSize} :
          ChatbotStoreSearchResults(results, page_size)
    \/ \E count \in Counts \cup {DefaultCount} : ChatbotGetNextResults(count)
    \/ Next

InitLegacy == InitWith(OrdinaryKeys, "legacy")

SpecLegacy == InitLegacy /\ [][NextLegacy]_vars

----------------------------------------------------------------------------
(* The engine functions as the workers run them: one step per file access. *)
(* Every helper reads a whole document, or writes a whole document built   *)
(* from the one it read before (existing_data).                            *)

\* what the concurrent callers pass: the empty list or the whole catalog, a
\* page of nothing or of one item
RaceLists == {<<>>, Ordered(Catalog)}
RacePageSizes == 0 .. 1

\* the first statement of each engine function
FirstPc(op) ==
    CASE op = "store_search_results" -> "store_open_results"
      [] op = "get_next_results"     -> "next_read_state"
      [] op = "reset_pagination"     -> "reset_open_state"
      [] op = "get_remaining_count"  -> "count_read_state"

\* variant: end_index not clamped to the length of the list
end_index_NoClamp(offset, count, n) == offset + count

\* end_index = min(offset + count, len(all_results))
end_index(offset, count, n) == Min(offset + count, n)

Locals(w, pc, op, d, arg, items) ==
    [IdleWorker(w) EXCEPT !.pc = pc, !.op = op, !.dev = d, !.arg = arg,
                          !.items = items,
                          !.before = [rs |-> ResultSet(d), cur |-> Cursor(d)],
                          !.calls = workers[w].calls + 1,
                          !.conversation_states = workers[w].conversation_states,
                          !.request = workers[w].request,
                          !.requests = workers[w].requests]

\* worker w enters engine function op for device d
Begin(w, op, d, arg, items) ==
    /\ w \in receiving
    /\ workers[w].pc \in {"idle", "done"}
    /\ workers[w].calls < MaxCalls
    /\ track = "disjoint" => d = HomeDevice(w)
    /\ workers' = [workers EXCEPT ![w] = Locals(w, FirstPc(op), op, d, arg, items)]
    /\ UNCHANGED <<interDoc, pagDoc, conversation_states, keys, track, receiving, sess>>

\* pagination_state = _read_pagination_state(device_id)
ReadPaginationState(w) ==
    LET L == workers[w]
    IN  /\ L.pc \in {"next_read_state", "count_read_state"}
        /\ workers' = [workers EXCEPT ![w] =
              [L EXCEPT !.pagination_state = _read_pagination_state(pagDoc, L.dev),
                        !.pc = IF L.pc = "next_read_state"
                               THEN "next_read_results" ELSE "count_read_results"]]
        /\ UNCHANGED <<interDoc, pagDoc, conversation_states, keys, track, receiving, sess>>

\* get_next_results from "all_results = _read_intermediate(device_id)" to the
\* slice: returns early, or goes on to write the Cursor
NextAfterRead(L, all_results) ==
    LET offset == L.pagination_state.offset
        end    == end_index(offset.n, L.arg, Len(all_results))
    IN  IF all_results = <<>>
        THEN [L EXCEPT !.all_results = all_results, !.pc = "done"]
        ELSE IF ~offset.int
        THEN [L EXCEPT !.all_results = all_results, !.pc = "done", !.err = "TypeError"]
        ELSE IF offset.n >= Len(all_results)
        THEN [L EXCEPT !.all_results = all_results, !.pc = "done"]
        ELSE [L EXCEPT !.all_results = all_results, !.pc = "next_open_state",
                       !.num = end,
                       !.ret = PySlice(all_results, offset.n, end)]

\* get_remaining_count from "all_results = _read_intermediate(device_id)" on
CountAfterRead(L, all_results) ==
    IF all_results = <<>>
    THEN [L EXCEPT !.all_results = all_results, !.pc = "done"]
    ELSE IF ~L.pagination_state.offset.int
    THEN [L EXCEPT !.all_results = all_results, !.pc = "done", !.err = "TypeError"]
    ELSE [L EXCEPT !.all_results = all_results, !.pc = "done",
                   !.num = Max(0, Len(all_results) - L.pagination_state.offset.n)]

\* all_results = _read_intermediate(device_id), and what follows without
\* touching a file
ReadIntermediate(w) ==
    LET L == workers[w]
        all_results == _read_intermediate(interDoc, L.dev)
    IN  /\ L.pc \in {"next_read_results", "count_read_results"}
        /\ workers' = [workers EXCEPT ![w] =
              IF L.pc = "next_read_results"
              THEN NextAfterRead(L, all_results)
              ELSE CountAfterRead(L, all_results)]
        /\ UNCHANGED <<interDoc, pagDoc, conversation_states, keys, track, receiving, sess>>

\* the write helpers' first half: existing_data = json.load(f)
ReadExisting(w) ==
    LET L == workers[w]
    IN  /\ L.pc \in {"store_open_results", "store_open_reset", "store_open_state",
                     "next_open_state", "reset_open_state"}
        /\ workers' = [workers EXCEPT ![w] =
              [L EXCEPT !.existing_data =
                            IF L.pc = "store_open_results" THEN interDoc ELSE pagDoc,
                        !.pc = CASE L.pc = "store_open_results" -> "store_trunc_results"
                                 [] L.pc = "store_open_reset"   -> "store_trunc_reset"
                                 [] L.pc = "store_open_state"   -> "store_trunc_state"
                                 [] L.pc = "next_open_state"    -> "next_trunc_state"
                                 [] L.pc = "reset_open_state"   -> "reset_trunc_state"]]
        /\ UNCHANGED <<interDoc, pagDoc, conversation_states, keys, track, receiving, sess>>

\* the write helpers' open(FILE, "w"): the file is empty until json.dump
\* and the close have put the new document in it
OpenForWrite(w) ==
    LET L == workers[w]
    IN  /\ L.pc \in {"store_trunc_results", "store_trunc_reset", "store_trunc_state",
                     "next_trunc_state", "reset_trunc_state"}
        /\ interDoc' = IF L.pc = "store_trunc_results" THEN UnparseableDoc(0) ELSE interDoc
        /\ pagDoc' = IF L.pc = "store_trunc_results" THEN pagDoc ELSE UnparseableDoc(0)
        /\ workers' = [workers EXCEPT ![w] =
              [L EXCEPT !.pc =
                  CASE L.pc = "store_trunc_results" -> "store_write_results"
                    [] L.pc = "store_trunc_reset"   -> "store_write_reset"
                    [] L.pc = "store_trunc_state"   -> "store_write_state"
                    [] L.pc = "next_trunc_state"    -> "next_write_state"
                    [] L.pc = "reset_trunc_state"   -> "reset_write_state"]]
        /\ UNCHANGED <<conversation_states, keys, track, receiving, sess>>

\* the write helpers' second half: json.dump(existing_data, f) for
\* _write_intermediate within store_search_results
WriteResults(w) ==
    LET L == workers[w]
    IN  /\ L.pc = "store_write_results"
        /\ interDoc' = json_dump("intermediate", interDoc,
                                 _write_intermediate(L.existing_data, L.items, L.dev))
        /\ workers' = [workers EXCEPT ![w] = [L EXCEPT !.pc = "store_open_reset"]]
        /\ UNCHANGED <<pagDoc, conversation_states, keys, track, receiving, sess>>

\* json.dump(existing_data, f) for _write_pagination_state, with the values
\* its caller passes
WriteState(w) ==
    LET L == workers[w]
    IN  /\ L.pc \in {"store_write_reset", "store_write_state",
                     "next_write_state", "reset_write_state"}
        /\ pagDoc' = json_dump("pagination_state", pagDoc,
              CASE L.pc = "store_write_reset" ->
                      _write_pagination_state(L.existing_data, 0, 0, L.dev)
                [] L.pc = "store_write_state" ->
                      _write_pagination_state(L.existing_data, L.arg, Len(L.items), L.dev)
                [] L.pc = "next_write_state" ->
                      _write_pagination_state(L.existing_data, L.num,
                                              Len(L.all_results), L.dev)
                [] L.pc = "reset_write_state" ->
                      _write_pagination_state(L.existing_data, 0, 0, L.dev))
        /\ workers' = [workers EXCEPT ![w] =
              CASE L.pc = "store_write_reset" -> [L EXCEPT !.pc = "store_open_state"]
                [] L.pc = "store_write_state" ->
                      [L EXCEPT !.pc = "done", !.ret = PySlice(L.items, 0, L.arg)]
                [] OTHER -> [L EXCEPT !.pc = "done"]]
        /\ UNCHANGED <<interDoc, conversation_states, keys, track, receiving, sess>>

\* the worker process dies inside store_search_results
Crash(w) ==
    /\ workers[w].op = "store_search_results"
    /\ workers[w].pc \notin {"idle", "done", "crashed"}
    /\ workers' = [workers EXCEPT ![w].pc = "crashed"]
    /\ UNCHANGED <<interDoc, pagDoc, conversation_states, keys, track, receiving, sess>>

NextRace ==
    \/ \E w \in Workers, d \in keys, items \in RaceLists, ps \in RacePageSizes :
          Begin(w, "store_search_results", d, ps, items)
    \/ \E w \in Workers, d \in keys, count \in Counts :
          Begin(w, "get_next_results", d, count, <<>>)
    \/ \E w \in Workers, d \in keys : Begin(w, "reset_pagination", d, 0, <<>>)
    \/ \E w \in Workers, d \in keys : Begin(w, "get_remaining_count", d, 0, <<>>)
    \/ \E w \in Workers : ReadPaginationState(w)
    \/ \E w \in Workers : ReadIntermediate(w)
    \/ \E w \in Workers : ReadExisting(w)
    \/ \E w \in Workers : OpenForWrite(w)
    \/ \E w \in Workers : WriteResults(w)
    \/ \E w \in Workers : WriteState(w)
    \/ \E w \in Workers : Crash(w)

\* the documents when the workers start: both absent, or as one completed
\* store_search_results on the default partition left them
StoredDocs ==
    {Outcome(MissingDoc, MissingDoc, <<>>, 0, "none")}
    \cup {store_search_results(MissingDoc, MissingDoc, items, ps, "default") :
             items \in RaceLists, ps \in RacePageSizes}

InitAfterStore(ks, tr, procs) ==
    /\ \E docs \in StoredDocs : interDoc = docs.inter /\ pagDoc = docs.pag
    /\ conversation_states = NoMap
    /\ keys = ks
    /\ track = tr
    /\ receiving = procs
    /\ sess = NoSess
    /\ workers = [w \in Workers |-> IdleWorker(w)]

\* two workers, any device each
InitRace == InitAfterStore(OrdinaryKeys, "race", TwoWorkers)

SpecRace == InitRace /\ [][NextRace]_vars

\* two workers, each on a device of its own
InitDisjoint == InitAfterStore(OrdinaryKeys, "disjoint", TwoWorkers)

SpecDisjoint == InitDisjoint /\ [][NextRace]_vars

\* three workers paging through one partition: only get_next_results and
\* get_remaining_count are called
NextPaging ==
    \/ \E w \in Workers, d \in keys, count \in Counts :
          Begin(w, "get_next_results", d, count, <<>>)
    \/ \E w \in Workers, d \in keys : Begin(w, "get_remaining_count", d, 0, <<>>)
    \/ \E w \in Workers : ReadPaginationState(w)
    \/ \E w \in Workers : ReadIntermediate(w)
    \/ \E w \in Workers : ReadExisting(w)
    \/ \E w \in Workers : OpenForWrite(w)
    \/ \E w \in Workers : WriteState(w)

InitPaging == InitAfterStore({"default"}, "race", ThreeWorkers)

SpecPaging == InitPaging /\ [][NextPaging]_vars

----------------------------------------------------------------------------
(* Conversation registry and the chat handler *)

SystemPrompt == [role |-> "system", tool |-> "", matched |-> <<>>,
                 returned |-> 0, remaining |-> 0]

Message(role) == [role |-> role, tool |-> "", matched |-> <<>>,
                  returned |-> 0, remaining |-> 0]

\* the tool-result message: tool name and the JSON content
ToolMessage(name, matched, returned, remaining) ==
    [role |-> "tool", tool |-> name, matched |-> matched,
     returned |-> returned, remaining |-> remaining]

\* conversation ids a client may send, and the ids uuid4 may produce
ClientConvIds == {"c1"}
Uuids == {"u1"}
NoConvId == "none"

\* variant: a new transcript starts empty
get_conversation_NoPrompt(states, conversation_id) ==
    IF conversation_id \in DOMAIN states THEN states
    ELSE SetKey(states, conversation_id, <<>>)

get_conversation(states, conversation_id) ==
    IF conversation_id \in DOMAIN states THEN states
    ELSE SetKey(states, conversation_id, <<SystemPrompt>>)

\* the "count" argument of a paginate call: an integer, absent, or a value
\* int() does not take
Given(n) == [given |-> TRUE, int |-> TRUE, n |-> n]
NoCount == [given |-> FALSE, int |-> TRUE, n |-> 0]
NotANumber == [given |-> TRUE, int |-> FALSE, n |-> 0]

NoFilters == [top_notes |-> "", gender |-> ""]

\* one tool call of a completion: function.name and function.arguments.  The
\* arguments text is a JSON object (its fields are in filters and count),
\* some other JSON value, or text that is not JSON
ToolCall(name, arguments, filters, count) ==
    [name |-> name, arguments |-> arguments, filters |-> filters, count |-> count]

ToolNames == {"search_perfumes", "get_next_results", "other_tool"}

ToolCalls ==
    {ToolCall("search_perfumes", "object", f, NoCount) : f \in Filters}
    \cup {ToolCall("get_next_results", "object", NoFilters, c) :
             c \in {Given(n) : n \in Counts} \cup {NoCount, NotANumber}}
    \cup {ToolCall("other_tool", "object", NoFilters, NoCount)}
    \cup {ToolCall(name, arguments, NoFilters, NoCount) :
             name \in ToolNames, arguments \in {"value", "text"}}

\* tool calls with the arguments "{}", as further calls of a completion
BareToolCalls == {ToolCall(name, "object", NoFilters, NoCount) : name \in ToolNames}

\* the message of the first completion: msg.tool_calls is empty for plain text
Completion(tool_calls) == [tool_calls |-> tool_calls]

\* completions with no tool call, one tool call, or two
LlmReplies ==
    {Completion(<<>>)}
    \cup {Completion(<<first>>) : first \in ToolCalls}
    \cup {Completion(<<first, further>>) : first \in ToolCalls, further \in BareToolCalls}

\* completions with one tool call
ToolReplies == {Completion(<<first>>) : first \in ToolCalls}

\* tool_call = msg.tool_calls[0]
FirstToolCall(msg) == msg.tool_calls[1]

\* where the request stops for a reason outside it: nowhere, at
\* get_openai_client (no API key), at the first completion, or at the second
\* completion.  (Whether json.loads of the arguments or int(count) raises is
\* decided by the tool call itself: see ToolStep.)
Faults == {"none", "config", "llm1", "llm2"}

\* the JSON body of the reply (absent fields: has = FALSE)
ChatResponse(status, conversation_id, has, matched, returned, remaining) ==
    [status |-> status, conversation_id |-> conversation_id, has |-> has,
     matched_perfumes |-> matched, returned_count |-> returned,
     remaining_count |-> remaining]

ChatResult(inter, pag, states, response) ==
    [inter |-> inter, pag |-> pag, states |-> states, response |-> response]

\* the tool-result message built from what the engine call returned and
\* from get_remaining_count() after it
\* assigned: whether the branch also sets matched_perfumes, returned_count
\* and remaining_count of the handler, which start as None
ToolResult(name, out, remaining_count, assigned) ==
    [inter |-> out.inter, pag |-> out.pag,
     err |-> IF out.err # "none" THEN out.err ELSE remaining_count.err,
     msg |-> ToolMessage(name, out.ret, Len(out.ret), remaining_count.num),
     assigned |-> assigned]

\* the search and the paginate branch
WithRemaining(name, out) ==
    ToolResult(name, out, get_remaining_count(out.inter, out.pag, "default"), TRUE)

\* the else branch: only the tool message is built
UnknownTool(name, inter, pag) ==
    ToolResult(name, Outcome(inter, pag, <<>>, 0, "none"),
               get_remaining_count(inter, pag, "default"), FALSE)

\* the tool branch raises before any engine call
Raises(name, inter, pag, err) ==
    ToolResult(name, Outcome(inter, pag, <<>>, 0, err),
               Outcome(inter, pag, <<>>, 0, "none"), FALSE)

\* args = json.loads(tool_call.function.arguments or "{}") raises on text
\* that is not JSON; filters.get / args.get raise on a value that is not an
\* object; int(args.get("count", 5)) raises on a value that is no number
ArgumentsError(tool_call) ==
    CASE tool_call.arguments = "text" -> "JSONDecodeError"
      [] tool_call.arguments = "value"
         /\ tool_call.name \in {"search_perfumes", "get_next_results"} -> "AttributeError"
      [] tool_call.arguments = "object"
         /\ tool_call.name = "get_next_results"
         /\ ~tool_call.count.int -> "ValueError"
      [] OTHER -> "none"

\* the tool branch of chat_endpoint for the tool call it picked: documents
\* afterwards and the tool message.  No device id is passed on: every call
\* works on the default partition.
ToolStep(inter, pag, tool_call) ==
    CASE ArgumentsError(tool_call) # "none" ->
            Raises(tool_call.name, inter, pag, ArgumentsError(tool_call))
      [] tool_call.name = "search_perfumes" ->
            WithRemaining(tool_call.name,
                store_search_results(inter, pag, search_perfumes(tool_call.filters),
                                     ChatPageSize, "default"))
      [] tool_call.name = "get_next_results" ->
            WithRemaining(tool_call.name,
                get_next_results(inter, pag,
                                 IF tool_call.count.given THEN tool_call.count.n
                                 ELSE DefaultCount,
                                 "default"))
      [] OTHER ->
            UnknownTool(tool_call.name, inter, pag)

RECURSIVE HandleToolCalls_Each(_, _, _)
\* mutation of HandleToolCalls: every tool call of the completion is run, one
\* after the other, where the handler runs msg.tool_calls[0] alone
HandleToolCalls_Each(inter, pag, msg) ==
    LET step == ToolStep(inter, pag, FirstToolCall(msg))
    IN  IF Len(msg.tool_calls) = 1 \/ step.err # "none" THEN step
        ELSE HandleToolCalls_Each(step.inter, step.pag,
                                  [msg EXCEPT !.tool_calls = Tail(msg.tool_calls)])

\* "if msg.tool_calls:" - of the tool calls the completion carries, the
\* first one is run
HandleToolCalls(inter, pag, msg) == ToolStep(inter, pag, FirstToolCall(msg))

Failed(inter, pag, states, cid) ==
    ChatResult(inter, pag, states, ChatResponse(500, cid, FALSE, <<>>, 0, 0))

\* variant: a failure of the second completion restores the transcript
AfterToolCall_Rollback(step, states, cid, transcript, fault) ==
    IF step.err # "none"
    THEN Failed(step.inter, step.pag, [states EXCEPT ![cid] = transcript], cid)
    ELSE IF fault = "llm2"
    THEN Failed(step.inter, step.pag, states, cid)
    ELSE ChatResult(step.inter, step.pag,
                    [states EXCEPT ![cid] =
                        Append(Append(transcript, step.msg), Message("assistant"))],
                    IF step.assigned
                    THEN ChatResponse(200, cid, TRUE, step.msg.matched,
                                      step.msg.returned, step.msg.remaining)
                    ELSE ChatResponse(200, cid, FALSE, <<>>, 0, 0))

\* chat_endpoint from the tool call on: transcript is the conversation with
\* the user message and the first completion appended
AfterToolCall(step, states, cid, transcript, fault) ==
    IF step.err # "none"
    THEN Failed(step.inter, step.pag, [states EXCEPT ![cid] = transcript], cid)
    ELSE IF fault = "llm2"
    THEN Failed(step.inter, step.pag,
                [states EXCEPT ![cid] = Append(transcript, step.msg)], cid)
    ELSE ChatResult(step.inter, step.pag,
                    [states EXCEPT ![cid] =
                        Append(Append(transcript, step.msg), Message("assistant"))],
                    IF step.assigned
                    THEN ChatResponse(200, cid, TRUE, step.msg.matched,
                                      step.msg.returned, step.msg.remaining)
                    ELSE ChatResponse(200, cid, FALSE, <<>>, 0, 0))

\* chat_endpoint once the conversation exists; transcript has the user message
AfterUserMessage(inter, pag, states, cid, transcript, reply, fault) ==
    IF fault \in {"config", "llm1"}
    THEN Failed(inter, pag, [states EXCEPT ![cid] = transcript], cid)
    ELSE IF reply.tool_calls = <<>>
    THEN ChatResult(inter, pag,
                    [states EXCEPT ![cid] = Append(transcript, Message("assistant"))],
                    ChatResponse(200, cid, FALSE, <<>>, 0, 0))
    ELSE AfterToolCall(HandleToolCalls(inter, pag, reply), states, cid,
                       Append(transcript, Message("assistant")), fault)

WithConversation(inter, pag, states, cid, reply, fault) ==
    AfterUserMessage(inter, pag, states, cid,
                     Append(states[cid], Message("user")), reply, fault)

\* chat_endpoint for a request with conversation id cid (already generated
\* when the request carried none) and device id device_id
chat_endpoint(inter, pag, states, cid, device_id, reply, fault) ==
    WithConversation(inter, pag, get_conversation(states, cid), cid, reply, fault)

\* the request takes effect; the guards are bounds of the model only
Respond(res, cid) ==
    /\ Len(res.states[cid]) <= MaxMsgs
    /\ _read_pagination_state(res.pag, "default").offset.n >= 0 - MaxDepth
    /\ interDoc' = res.inter
    /\ pagDoc' = res.pag
    /\ conversation_states' = res.states
    /\ UNCHANGED <<keys, track, receiving, sess, workers>>

\* POST /chat: conversation_id = request.conversation_id or create_conversation_id()
ChatRequest(device_id, conversation_id, reply, fault) ==
    /\ fault = "llm2" => reply.tool_calls # <<>>
    /\ \E cid \in (IF conversation_id = NoConvId
                   THEN Uuids \ DOMAIN conversation_states
                   ELSE {conversation_id}) :
          \E res \in {chat_endpoint(interDoc, pagDoc, conversation_states,
                                    cid, device_id, reply, fault)} :
              Respond(res, cid)

NextChat ==
    \E device_id \in keys, conversation_id \in ClientConvIds \cup {NoConvId},
       reply \in LlmReplies, fault \in Faults :
        ChatRequest(device_id, conversation_id, reply, fault)

InitChat == InitWith(OrdinaryKeys, "none")

SpecChat == InitChat /\ [][NextChat]_vars

----------------------------------------------------------------------------
(* Chat requests spread over the server's worker processes *)

\* The handler blocks its process from the request to the answer, so a
\* process handles one request at a time; the processes share the two files
\* and interleave at every file access of the engine calls.

\* process w has answered: the locals go, the transcripts and the answer stay
Answered(w, states, response) ==
    [IdleWorker(w) EXCEPT !.conversation_states = states,
                          !.request = [NoRequest EXCEPT !.response = response],
                          !.requests = workers[w].requests + 1]

\* process w enters an engine call of the handler (no device id is passed)
StartCall(w, op, arg, items, request, states) ==
    [Locals(w, FirstPc(op), op, "default", arg, items)
        EXCEPT !.calls = 0, !.request = request, !.conversation_states = states]

\* messages the request adds to the transcript (MaxMsgs bounds the transcript)
Grows(reply, fault) ==
    CASE fault \in {"config", "llm1"} -> 1
      [] reply.tool_calls = <<>> -> 2
      [] ArgumentsError(FirstToolCall(reply)) # "none" -> 2
      [] fault = "llm2" -> 3
      [] OTHER -> 4

\* conversation_id = request.conversation_id or create_conversation_id():
\* the id the client sent, or a new uuid4 no process has seen
ConversationIdFor(conversation_id) ==
    IF conversation_id = NoConvId
    THEN Uuids \ UNION {DOMAIN workers[v].conversation_states : v \in Workers}
    ELSE {conversation_id}

\* chat_endpoint in process w from the request to its first engine call (or
\* to the answer, when it makes none): the transcripts are those of w's own
\* conversation_states
HandlerStarts(w, cid, reply, fault) ==
    LET states == get_conversation(workers[w].conversation_states, cid)
        with_user == Append(states[cid], Message("user"))
        with_first == Append(with_user, Message("assistant"))
        tool_call == FirstToolCall(reply)
        request == [NoRequest EXCEPT !.stage = IF tool_call.name \in {"search_perfumes",
                                                                      "get_next_results"}
                                               THEN "tool" ELSE "remaining",
                                      !.conversation_id = cid,
                                      !.tool = tool_call.name, !.fault = fault]
        at_tool == [states EXCEPT ![cid] = with_first]
    IN  /\ Len(states[cid]) + Grows(reply, fault) <= MaxMsgs
        /\ workers' = [workers EXCEPT ![w] =
              IF fault \in {"config", "llm1"}
              THEN Answered(w, [states EXCEPT ![cid] = with_user],
                            ChatResponse(500, cid, FALSE, <<>>, 0, 0))
              ELSE IF reply.tool_calls = <<>>
              THEN Answered(w, at_tool, ChatResponse(200, cid, FALSE, <<>>, 0, 0))
              ELSE IF ArgumentsError(tool_call) # "none"
              THEN Answered(w, at_tool, ChatResponse(500, cid, FALSE, <<>>, 0, 0))
              ELSE CASE tool_call.name = "search_perfumes" ->
                          StartCall(w, "store_search_results", ChatPageSize,
                                    search_perfumes(tool_call.filters), request, at_tool)
                     [] tool_call.name = "get_next_results" ->
                          StartCall(w, "get_next_results",
                                    IF tool_call.count.given THEN tool_call.count.n
                                    ELSE DefaultCount,
                                    <<>>, request, at_tool)
                     [] OTHER ->
                          StartCall(w, "get_remaining_count", 0, <<>>, request, at_tool)]

\* POST /chat handled by process w
ChatRequestAt(w, device_id, conversation_id, reply, fault) ==
    /\ w \in receiving
    /\ workers[w].request.stage = "none"
    /\ workers[w].pc = "idle"
    /\ workers[w].requests < MaxRequests
    /\ fault = "llm2" => reply.tool_calls # <<>>
    /\ \E cid \in ConversationIdFor(conversation_id) : HandlerStarts(w, cid, reply, fault)
    /\ UNCHANGED <<interDoc, pagDoc, conversation_states, keys, track, receiving, sess>>

\* store_search_results / get_next_results has returned to the handler:
\* remaining_count = get_remaining_count() comes next
ToolReturns(w) ==
    LET L == workers[w]
    IN  /\ L.request.stage = "tool"
        /\ L.pc = "done"
        /\ workers' = [workers EXCEPT ![w] =
              IF L.err # "none"
              THEN Answered(w, L.conversation_states,
                            ChatResponse(500, L.request.conversation_id, FALSE, <<>>, 0, 0))
              ELSE StartCall(w, "get_remaining_count", 0, <<>>,
                             [L.request EXCEPT !.stage = "remaining", !.batch = L.ret],
                             L.conversation_states)]
        /\ UNCHANGED <<interDoc, pagDoc, conversation_states, keys, track, receiving, sess>>

\* get_remaining_count has returned: the tool message, the second completion
\* and the answer
RemainingReturns(w) ==
    LET L == workers[w]
        r == L.request
        cid == r.conversation_id
        with_tool == Append(L.conversation_states[cid],
                            ToolMessage(r.tool, r.batch, Len(r.batch), L.num))
    IN  /\ r.stage = "remaining"
        /\ L.pc = "done"
        /\ workers' = [workers EXCEPT ![w] =
              IF L.err # "none"
              THEN Answered(w, L.conversation_states,
                            ChatResponse(500, cid, FALSE, <<>>, 0, 0))
              ELSE IF r.fault = "llm2"
              THEN Answered(w, [L.conversation_states EXCEPT ![cid] = with_tool],
                            ChatResponse(500, cid, FALSE, <<>>, 0, 0))
              ELSE Answered(w, [L.conversation_states EXCEPT ![cid] =
                                    Append(with_tool, Message("assistant"))],
                            IF r.tool \in {"search_perfumes", "get_next_results"}
                            THEN ChatResponse(200, cid, TRUE, r.batch, Len(r.batch), L.num)
                            ELSE ChatResponse(200, cid, FALSE, <<>>, 0, 0))]
        /\ UNCHANGED <<interDoc, pagDoc, conversation_states, keys, track, receiving, sess>>

\* the completions of these runs: text, or one tool call: a search without
\* filters or with both, a paginate call with any count, an unknown tool, or
\* a call whose arguments do not parse
ProcReplies ==
    {Completion(<<>>)}
    \cup {Completion(<<tool_call>>) :
            tool_call \in {c \in ToolCalls :
                              /\ c.filters \in {NoFilters,
                                                [top_notes |-> "rose", gender |-> "men"]}
                              /\ c.arguments # "value"}}

\* any process may pick up a request, with or without a conversation id
NextProcs ==
    \/ \E w \in Workers, device_id \in keys, conversation_id \in ClientConvIds \cup {NoConvId},
          reply \in ProcReplies, fault \in Faults :
           ChatRequestAt(w, device_id, conversation_id, reply, fault)
    \/ \E w \in Workers : ReadPaginationState(w)
    \/ \E w \in Workers : ReadIntermediate(w)
    \/ \E w \in Workers : ReadExisting(w)
    \/ \E w \in Workers : OpenForWrite(w)
    \/ \E w \in Workers : WriteResults(w)
    \/ \E w \in Workers : WriteState(w)
    \/ \E w \in Workers : ToolReturns(w)
    \/ \E w \in Workers : RemainingReturns(w)

SpecProcs == InitChat /\ [][NextProcs]_vars

----------------------------------------------------------------------------
(* Properties *)

Offset(d) == Cursor(d).offset.n
Total(d) == Cursor(d).total_results.n

\* the Cursor holds integers (it always does unless device ids collide with
\* the Cursor's field names)
IntCursor(d) == Cursor(d).offset.int /\ Cursor(d).total_results.int

\* offset >= length of the ResultSet
Exhausted(d) == Cursor(d).offset.int /\ Offset(d) >= Len(ResultSet(d))

IsPrefix(s, t) == Len(s) <= Len(t) /\ s = SubSeq(t, 1, Len(s))

\* C1: store_search_results(items, page_size >= 0) followed only by
\* get_next_results(c) calls with one fixed c > 0 on that partition serves a
\* prefix of items at every moment (same order, nothing repeated, nothing
\* skipped) and, once an empty page has come back, exactly items.
C1_DrainYieldsItems ==
    sess.stored =>
        /\ IsPrefix(sess.served, sess.items)
        /\ sess.done => sess.served = sess.items

\* a drain of a list in more than one non-empty page, completed
C1_Witness ==
    /\ sess.stored /\ sess.done
    /\ sess.c = 1
    /\ Len(sess.items) - sess.ps >= 2
    /\ sess.served = sess.items

\* C2: right after store_search_results(items, page_size) the remaining count
\* of the partition is max(0, len(items) - min(page_size, len(items))), which
\* is len(items) minus the length of the first page returned.
C2_RemainingAfterStore ==
    (sess.stored /\ sess.c = 0) =>
        LET rem == Remaining(sess.dev)
            n   == Len(sess.items)
        IN  /\ rem.err = "none"
            /\ rem.num = Max(0, n - Min(sess.ps, n))
            /\ rem.num = n - Len(sess.served)

\* a non-empty list shorter than the page size was just stored
C2_Witness ==
    /\ sess.stored /\ sess.c = 0
    /\ sess.items # <<>>
    /\ Len(sess.items) < sess.ps
    /\ Remaining(sess.dev).num = 0

\* C3 as stated: once a partition is exhausted, after every step other than
\* a store_search_results on it every get_next_results(count > 0) returns
\* the empty list, leaves the Cursor as it is, and the remaining count is 0.
C3_Original ==
    [][\A d \in keys :
          (/\ Exhausted(d)
           /\ ~ \E items \in ItemLists, ps \in PageSizes : StoreSearchResults(d, items, ps))
              => \A c \in 1 .. MaxCount :
                    /\ get_next_results(interDoc', pagDoc', c, d).ret = <<>>
                    /\ get_next_results(interDoc', pagDoc', c, d).pag = pagDoc'
                    /\ get_remaining_count(interDoc', pagDoc', d).num = 0]_vars

\* on an exhausted partition every get_next_results(count > 0) returns the
\* empty list and leaves both documents as they are, the remaining count is
\* 0 before and after, no get_next_results with any other count and no
\* get_remaining_count changes a document, and reset_pagination puts the
\* Cursor at {0, 0}, after which get_next_results(count > 0) returns the
\* first min(count, len) items of the ResultSet
C3_WhileExhausted ==
    \A d \in keys :
        Exhausted(d) =>
            /\ \A c \in 1 .. MaxCount :
                  \A out \in {get_next_results(interDoc, pagDoc, c, d)} :
                      /\ out.ret = <<>> /\ out.err = "none"
                      /\ out.pag = pagDoc /\ out.inter = interDoc
                      /\ Remaining(d).num = 0
                      /\ get_remaining_count(out.inter, out.pag, d).num = 0
            /\ \A c \in Counts :
                  \A out \in {get_next_results(interDoc, pagDoc, c, d)} :
                      out.pag = pagDoc /\ out.inter = interDoc
            /\ \A out \in {get_remaining_count(interDoc, pagDoc, d)} :
                  out.pag = pagDoc /\ out.inter = interDoc
            /\ \A pag \in {reset_pagination(pagDoc, d)} :
                  /\ _read_pagination_state(pag, d) = DefaultState
                  /\ \A c \in 1 .. MaxCount :
                        get_next_results(interDoc, pag, c, d).ret
                            = SubSeq(ResultSet(d), 1, Min(c, Len(ResultSet(d))))

\* a step taken while a partition is exhausted leaves its ResultSet and
\* Cursor as they are, so that the partition is exhausted after it, unless
\* the step is a store_search_results or a reset_pagination on the partition
\* (a store leaves the list and the page size it was given in the files)
C3_UntilStoreOrReset ==
    \A d \in keys :
        Exhausted(d) =>
            \/ /\ _read_intermediate(interDoc', d) = ResultSet(d)
               /\ _read_pagination_state(pagDoc', d) = Cursor(d)
            \/ StoreSearchResults(d, _read_intermediate(interDoc', d),
                                  _read_pagination_state(pagDoc', d).offset.n)
            \/ ResetPagination(d)

\* C3 (amended): once a partition is exhausted, every get_next_results(count
\* > 0) returns the empty list, leaves the Cursor unchanged and the remaining
\* count is 0, until the next store_search_results or reset_pagination on
\* that partition; reset_pagination puts the Cursor at {0, 0} and leaves the
\* ResultSet, so that over a non-empty ResultSet the next
\* get_next_results(count > 0) returns the first min(count, len) items again.
C3_ExhaustedStaysEmpty == []C3_WhileExhausted /\ [][C3_UntilStoreOrReset]_vars

\* a drain that ended: the partition holds items, is exhausted, and the
\* empty page came back
C3_Witness ==
    /\ sess.stored /\ sess.done
    /\ ResultSet(sess.dev) # <<>>
    /\ Exhausted(sess.dev)
    /\ Offset(sess.dev) > Len(ResultSet(sess.dev))

\* ret is a run of consecutive elements of items starting after position k
RunAt(ret, items, k) ==
    /\ k + Len(ret) <= Len(items)
    /\ ret = SubSeq(items, k + 1, k + Len(ret))

\* C4 as stated: after a store over a partition that held items, the
\* ResultSet is the new list and every later get_next_results on the
\* partition returns only elements of the new list at positions >= page_size.
C4_Original ==
    sess.stored =>
        /\ ResultSet(sess.dev) = sess.items
        /\ \A c \in Counts :
              LET out == get_next_results(interDoc, pagDoc, c, sess.dev)
              IN  out.ret # <<>> =>
                     \E k \in sess.ps .. Len(sess.items) : RunAt(out.ret, sess.items, k)

\* C4 (amended): a store_search_results(items2, page_size2) on a partition
\* that holds items leaves, whatever the Cursor was before, the ResultSet
\* exactly items2 and the Cursor {page_size2, len(items2)}, and returns the
\* first page of items2.  Every later get_next_results on the partition, up
\* to the next store, returns a run of consecutive elements of items2,
\* starting at the Cursor offset whenever that offset is not negative; the
\* run lies at positions >= page_size2 as long as neither reset_pagination
\* nor a get_next_results with a negative count was called on the partition
\* since the store.
C4_ReplacedNotMerged ==
    /\ \A d \in keys, items2 \in ItemLists, page_size2 \in PageSizes :
          ResultSet(d) # <<>> =>
              \A out \in {store_search_results(interDoc, pagDoc, items2, page_size2, d)} :
                  /\ _read_intermediate(out.inter, d) = items2
                  /\ _read_pagination_state(out.pag, d)
                         = [offset |-> IntLeaf(page_size2),
                            total_results |-> IntLeaf(Len(items2))]
                  /\ out.ret = SubSeq(items2, 1, Min(page_size2, Len(items2)))
    /\ sess.stored =>
          /\ ResultSet(sess.dev) = sess.items
          /\ ~sess.back => Offset(sess.dev) >= sess.ps
          /\ \A c \in Counts :
                \A out \in {get_next_results(interDoc, pagDoc, c, sess.dev)} :
                    /\ out.err = "none"
                    /\ out.inter = interDoc
                    /\ \E k \in 0 .. Len(sess.items) : RunAt(out.ret, sess.items, k)
                    /\ (out.ret # <<>> /\ Offset(sess.dev) >= 0) =>
                           RunAt(out.ret, sess.items, Offset(sess.dev))
                    /\ (out.ret # <<>> /\ ~sess.back) =>
                           \E k \in sess.ps .. Len(sess.items) :
                               RunAt(out.ret, sess.items, k)

\* a list was stored over another one and a page was then served past the
\* first one
C4_Witness ==
    /\ sess.stored /\ ~sess.back
    /\ Len(sess.items) = 2
    /\ sess.ps = 1
    /\ Offset(sess.dev) = 2
    /\ Total(sess.dev) = 2

\* what partition b shows, read from the given documents
View(inter, pag, b) ==
    [results   |-> _read_intermediate(inter, b),
     cursor    |-> _read_pagination_state(pag, b),
     remaining |-> get_remaining_count(inter, pag, b).num,
     raises    |-> get_remaining_count(inter, pag, b).err]

\* C5 as stated: no operation on partition a changes the ResultSet, the
\* Cursor or the remaining count of another partition b.
C5_Isolation ==
    \A a \in keys, b \in keys :
        a # b =>
            LET now == View(interDoc, pagDoc, b)
            IN  /\ \A items \in ItemLists, ps \in PageSizes :
                      LET out == store_search_results(interDoc, pagDoc, items, ps, a)
                      IN  View(out.inter, out.pag, b) = now
                /\ \A c \in Counts :
                      LET out == get_next_results(interDoc, pagDoc, c, a)
                      IN  View(out.inter, out.pag, b) = now
                /\ View(interDoc, reset_pagination(pagDoc, a), b) = now
                /\ LET out == get_remaining_count(interDoc, pagDoc, a)
                   IN  View(out.inter, out.pag, b) = now

\* the paginate tool call with count c, and what a chat request of device
\* device_id gets back for it from the given documents
PaginateReply(c) ==
    Completion(<<ToolCall("get_next_results", "object", NoFilters, Given(c))>>)

NextPageFor(inter, pag, device_id, c) ==
    LET res == chat_endpoint(inter, pag, conversation_states, "c1", device_id,
                             PaginateReply(c), "none")
    IN  [matched   |-> res.response.matched_perfumes,
         returned  |-> res.response.returned_count,
         remaining |-> res.response.remaining_count]

\* C6 as stated: a chat request of device D touches partition D only; a
\* search or paginate tool call run for D changes neither another partition
\* nor what the next paginate call of another device E returns (items,
\* returned count, remaining count).
C6_ChatDeviceIsolation ==
    \A D \in keys, E \in keys, reply \in ToolReplies :
        (D # E /\ FirstToolCall(reply).name \in {"search_perfumes", "get_next_results"}) =>
            LET after == chat_endpoint(interDoc, pagDoc, conversation_states,
                                       "c1", D, reply, "none")
            IN  /\ \A b \in keys \ {D} :
                      View(after.inter, after.pag, b) = View(interDoc, pagDoc, b)
                /\ \A c \in Counts \cup {DefaultCount} :
                      NextPageFor(after.inter, after.pag, E, c)
                          = NextPageFor(interDoc, pagDoc, E, c)

\* C7 as stated: after every completed operation each partition's Cursor
\* satisfies 0 <= offset <= total_results.
C7_CursorInRange ==
    \A d \in keys :
        /\ IntCursor(d)
        /\ 0 <= Offset(d)
        /\ Offset(d) <= Total(d)

\* C8 as stated: no step other than a store on the partition lowers the
\* partition's Cursor offset.
C8_Original ==
    [][\A d \in keys :
          (~ \E items \in ItemLists, ps \in PageSizes : StoreSearchResults(d, items, ps))
              => Offset(d)' >= Offset(d)]_vars

\* C8 (amended): between two stores on a partition the Cursor offset never
\* decreases under get_next_results with count >= 0 and get_remaining_count;
\* reset_pagination sets it back to 0, and get_next_results with a negative
\* count lowers it to offset + count unless the partition is empty or
\* exhausted.
C8_OffsetSteps ==
    \A d \in keys :
        /\ \A c \in Counts :
              LET out == get_next_results(interDoc, pagDoc, c, d)
                  new == _read_pagination_state(out.pag, d).offset.n
              IN  IF c >= 0 THEN new >= Offset(d)
                  ELSE IF ResultSet(d) = <<>> \/ Exhausted(d)
                  THEN new = Offset(d)
                  ELSE new = Offset(d) + c
        /\ get_remaining_count(interDoc, pagDoc, d).pag = pagDoc
        /\ _read_pagination_state(reset_pagination(pagDoc, d), d).offset = IntLeaf(0)

\* a partition whose Cursor moved past the first page and was put back to the
\* start over the stored list
C8_Witness ==
    \E d \in keys :
        /\ Len(ResultSet(d)) = 2
        /\ Offset(d) = 0 /\ Total(d) = 0

\* C9 as stated: get_next_results with count <= 0 returns the empty list and
\* leaves the Cursor offset where it was.
C9_NonPositiveCountIsNoop ==
    \A d \in keys, c \in Counts :
        c <= 0 =>
            LET out == get_next_results(interDoc, pagDoc, c, d)
            IN  /\ out.ret = <<>>
                /\ _read_pagination_state(out.pag, d).offset = Cursor(d).offset

\* C10 as stated: get_next_results returns the empty list and leaves the
\* Cursor as it is whenever the ResultSet is empty, or offset >= the Cursor's
\* total, or offset >= the length of the ResultSet.
C10_Original ==
    \A d \in keys, c \in Counts :
        (\/ ResultSet(d) = <<>>
         \/ Offset(d) >= Total(d)
         \/ Offset(d) >= Len(ResultSet(d))) =>
            LET out == get_next_results(interDoc, pagDoc, c, d)
            IN  /\ out.ret = <<>>
                /\ _read_pagination_state(out.pag, d) = Cursor(d)

\* C10 (amended): get_next_results returns the empty list and leaves both
\* documents as they are whenever the ResultSet is empty or offset >= the
\* length of the ResultSet; the Cursor's total is not consulted: with Cursor
\* {0, 0} over a non-empty ResultSet (after reset_pagination) a call with
\* count > 0 returns the first min(count, len) items and writes
\* {min(count, len), len}.
C10_EmptyOrPastEnd ==
    \A d \in keys, c \in Counts :
        LET out == get_next_results(interDoc, pagDoc, c, d)
            n   == Len(ResultSet(d))
        IN  /\ (ResultSet(d) = <<>> \/ Offset(d) >= n) =>
                   /\ out.ret = <<>> /\ out.err = "none"
                   /\ out.pag = pagDoc /\ out.inter = interDoc
            /\ (n > 0 /\ Offset(d) = 0 /\ Total(d) = 0 /\ c > 0) =>
                   /\ out.ret = SubSeq(ResultSet(d), 1, Min(c, n))
                   /\ _read_pagination_state(out.pag, d)
                          = [offset |-> IntLeaf(Min(c, n)), total_results |-> IntLeaf(n)]

\* reset_pagination has written {0, 0} over a stored list
C10_Witness ==
    \E d \in keys :
        /\ ResultSet(d) # <<>>
        /\ Offset(d) = 0 /\ Total(d) = 0
        /\ get_next_results(interDoc, pagDoc, 1, d).ret = <<ResultSet(d)[1]>>

\* the items of list rs at the 0-based indices a .. b-1
ItemsAt(rs, a, b) == [i \in 1 .. (b - a) |-> rs[a + i]]

\* C11 as stated: with a non-empty ResultSet and offset < len(ResultSet),
\* get_next_results(count) with count > 0 returns exactly the items at the
\* indices [offset, end), end = min(offset + count, len(ResultSet)), and
\* writes the Cursor {end, len(ResultSet)}; a count beyond what remains
\* returns what remains, without padding and without error.
C11_NextPage ==
    \A d \in keys, c \in Counts :
        LET n   == Len(ResultSet(d))
            end == Min(Offset(d) + c, n)
            out == get_next_results(interDoc, pagDoc, c, d)
        IN  (n > 0 /\ IntCursor(d) /\ Offset(d) < n /\ c > 0) =>
                /\ out.err = "none"
                /\ \A i \in Offset(d) .. (end - 1) : i \in 0 .. (n - 1)
                /\ out.ret = ItemsAt(ResultSet(d), Offset(d), end)
                /\ _read_pagination_state(out.pag, d)
                       = [offset |-> IntLeaf(end), total_results |-> IntLeaf(n)]

\* C12 as stated: after store_search_results(items, page_size) the Cursor is
\* {min(page_size, len(items)), len(items)} and the page returned is
\* items[0 .. min(page_size, len(items))), short and empty lists included.
C12_CursorAfterStore ==
    \A d \in keys, items \in ItemLists, ps \in PageSizes :
        LET out == store_search_results(interDoc, pagDoc, items, ps, d)
            m   == Min(ps, Len(items))
        IN  /\ out.ret = SubSeq(items, 1, m)
            /\ _read_pagination_state(out.pag, d)
                   = [offset |-> IntLeaf(m), total_results |-> IntLeaf(Len(items))]

\* C13: two get_next_results calls of different workers on one partition may
\* both read the Cursor before either writes it.  Whenever one has returned a
\* non-empty page and the other, having read the same Cursor and list, is
\* about to write, the two pages start with the same item (one is a prefix of
\* the other) and the write puts the Cursor at min(offset + count, len)
\* counted from the offset read, whatever the first call has written; when
\* the second call opened the file before the first one wrote and its own
\* document is the shorter text, the file is left unparseable instead.
C13_RacingPagesOverlap ==
    \A a \in Workers, b \in Workers :
        LET A == workers[a]
            B == workers[b]
            n == Len(B.all_results)
            written == _write_pagination_state(B.existing_data, B.num, n, B.dev)
            after == IF B.pc = "next_write_state"
                     THEN json_dump("pagination_state", pagDoc, written)
                     ELSE written
        IN  (/\ a # b
             /\ A.op = "get_next_results" /\ B.op = "get_next_results"
             /\ A.dev = B.dev
             /\ A.pc = "done" /\ A.ret # <<>>
             /\ B.pc \in {"next_trunc_state", "next_write_state"} /\ B.ret # <<>>
             /\ B.pagination_state = A.pagination_state
             /\ B.all_results = A.all_results) =>
                /\ IsPrefix(A.ret, B.ret) \/ IsPrefix(B.ret, A.ret)
                /\ \/ /\ after.shape = "corrupt"
                      /\ B.pc = "next_write_state"
                      /\ FileSize("pagination_state", pagDoc)
                             > FileSize("pagination_state", written)
                   \/ _read_pagination_state(after, B.dev)
                          = [offset |-> IntLeaf(Min(B.pagination_state.offset.n + B.arg, n)),
                             total_results |-> IntLeaf(n)]

\* the race has happened: one call has returned a page and moved the Cursor,
\* the other holds the same page, computed from the Cursor as it was before
C13_Witness ==
    \E a \in Workers, b \in Workers :
        LET A == workers[a]
            B == workers[b]
        IN  /\ a # b
            /\ A.op = "get_next_results" /\ B.op = "get_next_results"
            /\ A.dev = B.dev
            /\ A.pc = "done" /\ B.pc = "next_write_state"
            /\ B.pagination_state = A.pagination_state
            /\ A.ret # <<>> /\ B.ret = A.ret
            /\ Cursor(A.dev).offset.n = A.num
            /\ A.num > A.pagination_state.offset.n

\* the call of worker locals L run alone on its partition as the partition
\* was when the call began
AloneOutcome(L) ==
    LET inter0 == _write_intermediate(MissingDoc, L.before.rs, L.dev)
        pag0   == _write_pagination_state(MissingDoc, L.before.cur.offset.n,
                                          L.before.cur.total_results.n, L.dev)
    IN  CASE L.op = "store_search_results" ->
                store_search_results(inter0, pag0, L.items, L.arg, L.dev)
          [] L.op = "get_next_results" ->
                get_next_results(inter0, pag0, L.arg, L.dev)
          [] L.op = "reset_pagination" ->
                Outcome(inter0, reset_pagination(pag0, L.dev), <<>>, 0, "none")
          [] OTHER ->
                get_remaining_count(inter0, pag0, L.dev)

\* C14 as stated: with each worker on a device id of its own, a completed
\* call leaves its partition's ResultSet and Cursor, and returns, what the
\* call would have left and returned had the partition's calls run alone.
C14_DisjointPartitionsIndependent ==
    \A w \in Workers :
        LET L == workers[w]
            alone == AloneOutcome(L)
        IN  L.pc = "done" =>
                /\ ResultSet(L.dev) = _read_intermediate(alone.inter, L.dev)
                /\ Cursor(L.dev) = _read_pagination_state(alone.pag, L.dev)
                /\ L.ret = alone.ret
                /\ L.op = "get_remaining_count" => L.num = alone.num

\* C15 as stated: while a worker is inside store_search_results on a
\* partition (or has crashed inside it, or has completed it) and no other
\* call is in progress, the partition shows either the ResultSet and Cursor
\* it had before, or the new ResultSet with the Cursor of the completed store.
C15_StoreIsAtomic ==
    \A w \in Workers :
        LET L == workers[w]
            d == L.dev
        IN  (/\ \A v \in Workers \ {w} : workers[v].pc = "idle" /\ workers[v].calls = 0
             /\ L.op = "store_search_results") =>
                \/ ResultSet(d) = L.before.rs /\ Cursor(d) = L.before.cur
                \/ /\ ResultSet(d) = L.items
                   /\ Cursor(d) = [offset |-> IntLeaf(L.arg),
                                   total_results |-> IntLeaf(Len(L.items))]

\* conversation ids a request may end up with
ConvIds == ClientConvIds \cup Uuids

\* C16 as stated: a chat request on a conversation id not seen before leaves
\* the Cursor of the request's partition at {0, 0} when no tool runs, and a
\* paginate tool call in it answers as it would from the reset Cursor, not
\* from the Cursor an earlier conversation left.
C16_NewConversationResets ==
    \A device_id \in keys, cid \in ConvIds \ DOMAIN conversation_states :
        /\ \A reply \in LlmReplies :
              reply.tool_calls = <<>> =>
                  _read_pagination_state(
                      chat_endpoint(interDoc, pagDoc, conversation_states, cid,
                                    device_id, reply, "none").pag,
                      device_id) = DefaultState
        /\ \A c \in Counts \cup {DefaultCount} :
              chat_endpoint(interDoc, pagDoc, conversation_states, cid,
                            device_id, PaginateReply(c), "none").response
                  = chat_endpoint(interDoc, reset_pagination(pagDoc, device_id),
                                  conversation_states, cid,
                                  device_id, PaginateReply(c), "none").response

\* C17: every transcript starts with the system prompt, unchanged, and holds
\* no other system-role message, whatever requests completed or failed.
C17_SystemPromptFirst ==
    \A cid \in DOMAIN conversation_states :
        LET t == conversation_states[cid]
        IN  /\ Len(t) >= 1
            /\ t[1] = SystemPrompt
            /\ \A i \in 2 .. Len(t) : t[i].role # "system"

\* a transcript that has been through a failed request and through a tool call
C17_Witness ==
    \E cid \in DOMAIN conversation_states :
        LET t == conversation_states[cid]
        IN  /\ Len(t) >= 5
            /\ t[1] = SystemPrompt
            /\ \E i \in 2 .. Len(t) : t[i].role = "tool"
            /\ \E i \in 2 .. (Len(t) - 1) : t[i].role = "user" /\ t[i + 1].role = "user"

\* C18 as stated: when a persisted document is missing or holds an entry of
\* unexpected shape for the partition, get_next_results and
\* get_remaining_count return normally, as for an empty ResultSet and a
\* {0, 0} Cursor.
C18_ReadsDegrade ==
    \A d \in keys, c \in Counts :
        LET out == get_next_results(interDoc, pagDoc, c, d)
            rem == get_remaining_count(interDoc, pagDoc, d)
        IN  (interDoc.shape = "missing" \/ pagDoc.shape = "missing" \/ ~IntCursor(d)) =>
                /\ out.err = "none" /\ rem.err = "none"
                /\ ~IntCursor(d) => (out.ret = <<>> /\ rem.num = 0)

\* C19 as stated: a tool call with a name other than search_perfumes /
\* get_next_results, whatever its arguments, leaves both documents as they
\* are, appends a tool result with no items and returned_count 0, and the
\* request goes on to the final reply instead of failing.
C19_UnknownToolIsNoop ==
    \A device_id \in keys, cid \in ConvIds, reply \in ToolReplies :
        FirstToolCall(reply).name \notin {"search_perfumes", "get_next_results"} =>
            \A res \in {chat_endpoint(interDoc, pagDoc, conversation_states, cid,
                                      device_id, reply, "none")} :
                LET t == res.states[cid]
                IN  /\ res.inter = interDoc /\ res.pag = pagDoc
                    /\ res.response.status = 200
                    /\ Len(t) >= 3
                    /\ t[Len(t)].role = "assistant"
                    /\ t[Len(t) - 1].role = "tool"
                    /\ t[Len(t) - 1].tool = FirstToolCall(reply).name
                    /\ t[Len(t) - 1].matched = <<>>
                    /\ t[Len(t) - 1].returned = 0

\* C20: when the second completion fails after the tool call ran, the request
\* answers with an error, the documents are the ones the tool call wrote (the
\* same as when the request succeeds), and the transcript keeps the user
\* message, the first completion and the tool result.
C20_NoRollback ==
    \A device_id \in keys, cid \in ConvIds, reply \in ToolReplies :
        LET step == ToolStep(interDoc, pagDoc, FirstToolCall(reply))
            old  == get_conversation(conversation_states, cid)[cid]
            bad  == chat_endpoint(interDoc, pagDoc, conversation_states, cid,
                                  device_id, reply, "llm2")
            good == chat_endpoint(interDoc, pagDoc, conversation_states, cid,
                                  device_id, reply, "none")
        IN  step.err = "none" =>
                /\ bad.response.status = 500
                /\ bad.inter = good.inter /\ bad.pag = good.pag
                /\ bad.inter = step.inter /\ bad.pag = step.pag
                /\ bad.states[cid]
                       = old \o <<Message("user"), Message("assistant"), step.msg>>
                /\ \A other \in DOMAIN conversation_states \ {cid} :
                       bad.states[other] = conversation_states[other]

\* a request failed at the second completion after its search was stored
C20_Witness ==
    /\ ResultSet("default") # <<>>
    /\ Cursor("default").offset = IntLeaf(ChatPageSize)
    /\ \E cid \in DOMAIN conversation_states :
          LET t == conversation_states[cid]
          IN  /\ t[Len(t)].role = "tool"
              /\ t[Len(t)].tool = "search_perfumes"
              /\ t[Len(t)].returned = ChatPageSize

\* C21 as stated: reset_pagination(p) writes the Cursor {0, 0} for p and
\* leaves the ResultSet of p, and the ResultSet and Cursor of every other
\* partition, as they were.
C21_ResetFrame ==
    \A p \in keys :
        LET pag == reset_pagination(pagDoc, p)
        IN  /\ _read_pagination_state(pag, p) = DefaultState
            /\ \A b \in keys \ {p} :
                  _read_pagination_state(pag, b) = Cursor(b)

\* C22 as stated: every Cursor write of store_search_results,
\* get_next_results and reset_pagination records a total_results equal to the
\* length of the partition's ResultSet at the moment of the write.
C22_Original ==
    \A d \in keys :
        /\ _read_pagination_state(reset_pagination(pagDoc, d), d).total_results
               = IntLeaf(Len(ResultSet(d)))
        /\ \A c \in Counts :
              LET out == get_next_results(interDoc, pagDoc, c, d)
              IN  out.pag # pagDoc =>
                      _read_pagination_state(out.pag, d).total_results
                          = IntLeaf(Len(_read_intermediate(out.inter, d)))

\* C22 (amended): the Cursor that store_search_results leaves and every
\* Cursor get_next_results writes record total_results = the length of the
\* partition's ResultSet; reset_pagination records 0 whatever the ResultSet
\* holds.
C22_TotalWritten ==
    \A d \in keys :
        /\ _read_pagination_state(reset_pagination(pagDoc, d), d).total_results
               = IntLeaf(0)
        /\ \A c \in Counts :
              LET out == get_next_results(interDoc, pagDoc, c, d)
              IN  out.pag # pagDoc =>
                      _read_pagination_state(out.pag, d).total_results
                          = IntLeaf(Len(_read_intermediate(out.inter, d)))
        /\ \A items \in ItemLists, ps \in PageSizes :
              LET out == store_search_results(interDoc, pagDoc, items, ps, d)
              IN  /\ _read_intermediate(out.inter, d) = items
                  /\ _read_pagination_state(out.pag, d).total_results
                         = IntLeaf(Len(items))

\* get_next_results has written the Cursor of a partition that was reset over
\* its stored list
C22_Witness ==
    \E d \in keys :
        /\ Len(ResultSet(d)) = 2
        /\ Offset(d) = 1 /\ Total(d) = 2
        /\ sess = NoSess

\* C23 as stated: for every partition key, field names of the document
\* included, _read_pagination_state(p) returns what _write_pagination_state
\* last wrote for p, also after writes for other partitions, and {0, 0} for a
\* partition never written.
C23_CursorRoundTrip ==
    \A p \in keys, o \in PageSizes, t \in 0 .. MaxLen :
        LET written == _write_pagination_state(pagDoc, o, t, p)
        IN  /\ _read_pagination_state(written, p)
                   = [offset |-> IntLeaf(o), total_results |-> IntLeaf(t)]
            /\ \A q \in keys \ {p} :
                  _read_pagination_state(written, q) = Cursor(q)
            /\ (pagDoc.shape = "missing" \/ p \notin DOMAIN pagDoc.map) =>
                  Cursor(p) = DefaultState

\* C24: store_search_results([], page_size) returns [], get_remaining_count
\* is then 0 and a following get_next_results(count) returns [] without
\* raising, for the chat handler's page size and count of 5 in particular.
C24_EmptyStore ==
    \A d \in keys, ps \in PageSizes \cup {ChatPageSize},
       c \in (1 .. MaxCount) \cup {DefaultCount} :
        LET out  == store_search_results(interDoc, pagDoc, <<>>, ps, d)
            rem  == get_remaining_count(out.inter, out.pag, d)
            page == get_next_results(out.inter, out.pag, c, d)
        IN  /\ out.ret = <<>> /\ out.err = "none"
            /\ rem.num = 0 /\ rem.err = "none"
            /\ page.ret = <<>> /\ page.err = "none"
            /\ page.pag = out.pag

\* an empty list has been stored with a page size above 0
C24_Witness ==
    \E d \in keys :
        /\ interDoc.shape = "map" /\ d \in DOMAIN interDoc.map
        /\ ResultSet(d) = <<>>
        /\ Offset(d) = MaxPage /\ Total(d) = 0
        /\ Remaining(d).num = 0

\* C25: after a store, repeated get_next_results(c) with one c > 0 lowers
\* get_remaining_count on every non-empty page and eventually returns an
\* empty page, after which the remaining count is 0.
C25_DrainTerminates ==
    /\ [](sess.stored =>
            \A c \in 1 .. MaxCount :
                LET out == get_next_results(interDoc, pagDoc, c, sess.dev)
                IN  out.ret # <<>> =>
                        get_remaining_count(out.inter, out.pag, sess.dev).num
                            < Remaining(sess.dev).num)
    /\ [](sess.done => Remaining(sess.dev).num = 0)
    /\ (sess.stored ~> (sess.done /\ Remaining(sess.dev).num = 0))

\* a list of two drained one item at a time: two pages, then an empty one
C25_Witness ==
    /\ sess.stored /\ sess.done
    /\ sess.ps = 0 /\ sess.c = 1
    /\ Len(sess.items) = 2
    /\ sess.served = sess.items

\* the documents one mutating engine call of the handler can leave
AfterOneCall(inter, pag) ==
    {[inter |-> o.inter, pag |-> o.pag] :
        o \in {store_search_results(inter, pag, search_perfumes(f), ChatPageSize, "default") :
                  f \in Filters}
              \cup {get_next_results(inter, pag, c, "default") :
                      c \in Counts \cup {DefaultCount}}}

\* the tool-result messages among those a request appended to transcript old
ToolMessagesAdded(old, new) ==
    {i \in (Len(old) + 1) .. Len(new) : new[i].role = "tool"}

C27_CountConservation ==
    \A device_id \in keys, cid \in ConvIds, reply \in ToolReplies :
        LET res == chat_endpoint(interDoc, pagDoc, conversation_states, cid,
                                 device_id, reply, "none").response
            tool_call == FirstToolCall(reply)
        IN  ArgumentsError(tool_call) = "none" =>
            /\ tool_call.name = "search_perfumes" =>
                  /\ res.returned_count = Len(res.matched_perfumes)
                  /\ res.returned_count + res.remaining_count
                         = Len(search_perfumes(tool_call.filters))
            /\ tool_call.name = "get_next_results" =>
                  /\ res.returned_count = Len(res.matched_perfumes)
                  /\ res.returned_count + res.remaining_count
                         = Remaining("default").num

\* the transcript process w hands to the completion for the next request of
\* conversation cid, before the new user message
Handed(w, cid) == get_conversation(workers[w].conversation_states, cid)[cid]

\* the messages the completed requests handled by process w appended to
\* conversation cid
AppendedAt(w, cid) ==
    IF cid \in DOMAIN workers[w].conversation_states
    THEN Tail(workers[w].conversation_states[cid]) ELSE <<>>

RECURSIVE IsSubsequence(_, _)
\* the elements of s occur in t in the order of s
IsSubsequence(s, t) ==
    IF s = <<>> THEN TRUE
    ELSE IF t = <<>> THEN FALSE
    ELSE IF Head(s) = Head(t) THEN IsSubsequence(Tail(s), Tail(t))
    ELSE IsSubsequence(s, Tail(t))

\* C28 as stated: whichever process handles the next request of a
\* conversation, the transcript it hands to the completion contains, in
\* order, every message the earlier requests of the conversation appended,
\* whichever processes handled those.
C28_TranscriptFollowsConversation ==
    \A p \in Workers, q \in Workers, cid \in ClientConvIds :
        (workers[p].request.stage = "none" /\ workers[q].request.stage = "none") =>
            IsSubsequence(AppendedAt(p, cid), Handed(q, cid))

\* device ids a write or read may name
AnyKeys == OrdinaryKeys \cup FieldKeys

\* C29: while a document is in the legacy single-partition shape, partition
\* "default" reads the legacy content and every other partition reads empty
\* / {0, 0}; a write for any partition leaves the document in the
\* per-partition shape, reads back for that partition, leaves the partitions
\* never written empty, and leaves the legacy content as partition
\* "default" unless "default" is the partition written.  A
\* store_search_results for another partition keeps both legacy parts.
C29_LegacyCompat ==
    /\ LegacyList(interDoc) =>
          /\ ResultSet("default") = interDoc.list
          /\ \A d \in AnyKeys \ {"default"} : ResultSet(d) = <<>>
          /\ \A d \in AnyKeys, data_list \in ItemLists :
                LET doc == _write_intermediate(interDoc, data_list, d)
                IN  /\ doc.shape = "map"
                    /\ _read_intermediate(doc, d) = data_list
                    /\ d # "default" =>
                          _read_intermediate(doc, "default") = interDoc.list
                    /\ \A other \in AnyKeys \ {d, "default"} :
                          _read_intermediate(doc, other) = <<>>
    /\ FlatCursor(pagDoc) =>
          /\ Cursor("default") = [offset |-> IntLeaf(pagDoc.map["offset"].n),
                                  total_results |-> IntLeaf(pagDoc.map["total_results"].n)]
          /\ \A d \in AnyKeys \ {"default"} : Cursor(d) = DefaultState
          /\ LooksLegacy(pagDoc.map)
          /\ \A d \in AnyKeys, offset \in (0 - MaxDepth) .. MaxPage, total \in 0 .. MaxLen :
                LET doc == _write_pagination_state(pagDoc, offset, total, d)
                IN  /\ ~FlatCursor(doc)
                    /\ _read_pagination_state(doc, d)
                           = [offset |-> IntLeaf(offset), total_results |-> IntLeaf(total)]
                    /\ d # "default" =>
                          _read_pagination_state(doc, "default") = Cursor("default")
                    /\ \A other \in AnyKeys \ {d, "default"} :
                          _read_pagination_state(doc, other) = DefaultState
    /\ (LegacyList(interDoc) /\ FlatCursor(pagDoc)) =>
          \A d \in AnyKeys \ {"default"}, items \in ItemLists, ps \in PageSizes :
              LET out == store_search_results(interDoc, pagDoc, items, ps, d)
              IN  /\ ~LegacyList(out.inter) /\ ~FlatCursor(out.pag)
                  /\ _read_intermediate(out.inter, "default") = interDoc.list
                  /\ _read_pagination_state(out.pag, "default") = Cursor("default")
                  /\ _read_intermediate(out.inter, d) = items

\* the single-partition program left a full list and, after a negative
\* count, a negative offset; a write for "devA" has converted the Cursor
\* document while the Result Store still holds the legacy list, and
\* "default" keeps the legacy Cursor
C29_Witness ==
    /\ LegacyList(interDoc) /\ Len(interDoc.list) = MaxLen
    /\ pagDoc.shape = "map" /\ ~FlatCursor(pagDoc)
    /\ DOMAIN pagDoc.map = {"default", "devA"}
    /\ Cursor("default").offset.n < 0
    /\ Cursor("default").total_results.n = Len(interDoc.list)

====
